---- MODULE Spec2Model ----
(***************************************************************************)
(* The poller of panlibin/gnet (internal/netpoll): the epoll backend       *)
(* (epoll.go) and the kqueue backend, with the asynchronous job queue the  *)
(* poller drains.  One Poller, one thread running Polling, any number of   *)
(* threads calling Trigger and the registration operations.                *)
(***************************************************************************)
EXTENDS Integers, Sequences, FiniteSets, TLC

\* ------------------------------------------------------------------ bounds
\* Jobs handed to Trigger in one run.
MaxJobs == 3

\* Threads calling Trigger; caller 0 is the poller thread, when a job that
\* ForEach is running calls Trigger itself.
Threads == {1, 2}
Callers == {0} \cup Threads

Backends == {"epoll", "kqueue"}

\* Descriptors the caller owns and may register (0 is a legal descriptor),
\* and the descriptors the kernel hands to OpenPoller, lowest first.
AppFds == {0, 5}
KernelFds == {3, 4}
AllFds == AppFds \cup KernelFds

\* Error values: Nil is success; the callback's failure on descriptor fd
\* and job j's failure are values of their own.
Nil == "nil"
CbErr(fd) == IF fd = 0 THEN "cb0" ELSE "cb5"
JobErr(j) == IF j = 1 THEN "job1" ELSE "jobN"

\* Initial capacity of the event list (128 in the program; scaled down so
\* that a batch can fill the buffer).
InitEvents == 2

VARIABLES
    backend,     \* build: "epoll" or "kqueue"
    open,        \* the process's open descriptors
    closeCnt,    \* close syscalls issued per descriptor
    p,           \* the Poller: [fd, wfd] (wfd stays 0 on kqueue)
    openRes,     \* OpenPoller: "none" (not called), "ok", "err"
    closeRes,    \* Close: "none" (not called), "ok", "err"
    wakeCtr,     \* eventfd counter (epoll) / user filter triggered (kqueue)
    interest,    \* per application descriptor: the filters registered in
                 \*   the poller, a subset of {"r", "w"}
    ready,       \* application descriptors that are readable
    writable,    \* application descriptors that are writable
    flags,       \* per descriptor: the flag its read record carries (kqueue)
    jobs,        \* asyncJobQueue: the queued jobs
    nPushed,     \* jobs pushed so far; job k is the k-th to take the lock
    tpc,         \* per caller of Trigger: "idle", "called", "wake"
    tjob,        \* per caller: the job its Trigger pushed, while it is in Trigger
    pollPc,      \* Polling: "idle", "wait", "dispatch", "foreach", "injob",
                 \*   "returned"
    el,          \* el.size
    events,      \* el.events[0..n-1], the batch the wait call returned
    n,           \* the wait call's result (-1 on error)
    i,           \* index of the next record to dispatch (1-based)
    wakenUp,     \* Polling's wakenUp
    err,         \* Polling's named result
    feJobs,      \* ForEach: the batch swapped out of the queue
    feIdx,       \* ForEach: index of the next job to run
    \* ---- history, for stating the properties
    executed,    \* the jobs run so far, in order
    trigRet,     \* per job: result of its Trigger: "none", "ok", "err"
    pushLen,     \* per job: what its Push returned
    wakeBy,      \* per job: wake syscalls its Trigger issued
    late,        \* jobs pushed since the last swap of ForEach
    feExec,      \* jobs run by the current ForEach call
    swaps,       \* ForEach swaps that took a non-empty queue
    burst,       \* every Trigger so far was called on an empty queue with
                 \*   the poller blocked in the wait call
    failed,      \* the first failure of a callback or job
    extraCb,     \* a callback was invoked after that failure
    dropped,     \* jobs that followed a failed job in its batch
    deleted,     \* descriptors whose Delete returned nil since their last Add
    lastMod,     \* the Mod operation that was the last registration call
    waitErr,     \* the error of the wait call the loop last made, if it failed
    lastCb,      \* arguments of the last callback invocation of this batch
    ranOn,       \* threads that have run a callback or a job
    misWake      \* a record that is not the wake event was taken for it

vars == << backend, open, closeCnt, p, openRes, closeRes, wakeCtr, interest,
           ready, writable, flags, jobs, nPushed, tpc, tjob, pollPc, el,
           events, n, i, wakenUp, err, feJobs, feIdx, executed, trigRet,
           pushLen, wakeBy, late, feExec, swaps, burst, failed, extraCb,
           dropped, deleted, lastMod, waitErr, lastCb, ranOn, misWake >>

osVars   == << open, closeCnt, p, openRes, closeRes >>
regVars  == << interest, deleted, lastMod >>
ioVars   == << regVars, ready, writable, flags >>
trigVars == << tpc, tjob, trigRet, pushLen, wakeBy, burst >>
pollVars == << pollPc, el, events, n, i, wakenUp, err >>
feVars   == << feJobs, feIdx >>
histVars == << executed, late, feExec, swaps, failed, extraCb, dropped >>
obsVars  == << waitErr, lastCb, ranOn, misWake >>

Range(s) == { s[k] : k \in 1..Len(s) }

NoFailure == [src |-> "none", e |-> Nil, execs |-> 0, rest |-> 0, woken |-> FALSE]

Filters == {"r", "w"}
NoMod == [op |-> "none", fd |-> 0, ok |-> FALSE, before |-> {}]
NoCb  == [fd |-> 0, ev |-> "none"]

\* The application descriptors registered in the poller.
registered == { fd \in AppFds : interest[fd] # {} }

Init ==
    /\ backend \in Backends
    /\ open = AppFds
    /\ closeCnt = [f \in AllFds |-> 0]
    /\ p = [fd |-> 0, wfd |-> 0]
    /\ openRes = "none"
    /\ closeRes = "none"
    /\ wakeCtr = 0
    /\ interest = [fd \in AppFds |-> {}]
    /\ ready = {}
    /\ writable = {}
    /\ flags = [fd \in AppFds |-> "none"]
    /\ jobs = << >>
    /\ nPushed = 0
    /\ tpc = [c \in Callers |-> "idle"]
    /\ tjob = [c \in Callers |-> 0]
    /\ pollPc = "idle"
    /\ el = 0
    /\ events = << >>
    /\ n = 0
    /\ i = 1
    /\ wakenUp = FALSE
    /\ err = Nil
    /\ feJobs = << >>
    /\ feIdx = 1
    /\ executed = << >>
    /\ trigRet = [j \in 1..MaxJobs |-> "none"]
    /\ pushLen = [j \in 1..MaxJobs |-> 0]
    /\ wakeBy = [j \in 1..MaxJobs |-> 0]
    /\ late = {}
    /\ feExec = {}
    /\ swaps = 0
    /\ burst = TRUE
    /\ extraCb = FALSE
    /\ failed = NoFailure
    /\ dropped = {}
    /\ deleted = {}
    /\ lastMod = NoMod
    /\ waitErr = "none"
    /\ lastCb = NoCb
    /\ ranOn = {}
    /\ misWake = FALSE

\* ------------------------------------------------------------ the kernel
\* A new descriptor is the lowest one that is free.
NewFd(o) == CHOOSE f \in KernelFds \ o : \A g \in KernelFds \ o : f <= g

\* close(2) that succeeds.
CloseFd(o, f) == o \ {f}

\* --------------------------------------------------------- OpenPoller
\* epoll.go: EpollCreate1, then eventfd2, then AddRead(wfd); r1, r2, r3 are
\* the three syscalls' outcomes.
OpenPollerEpoll(r1, r2, r3) ==
    LET epollFD == NewFd(open)
        wfd     == NewFd(open \cup {epollFD})
    IN  IF ~r1
        THEN /\ openRes' = "err"
             /\ UNCHANGED << open, closeCnt, p >>
        ELSE IF ~r2
        THEN /\ openRes' = "err"
             /\ open' = CloseFd(open \cup {epollFD}, epollFD)
             /\ closeCnt' = [closeCnt EXCEPT ![epollFD] = @ + 1]
             /\ UNCHANGED p
        ELSE IF ~r3
        THEN /\ openRes' = "err"
             /\ open' = open \cup {epollFD, wfd}
             /\ UNCHANGED << closeCnt, p >>
        ELSE /\ openRes' = "ok"
             /\ open' = open \cup {epollFD, wfd}
             /\ p' = [fd |-> epollFD, wfd |-> wfd]
             /\ UNCHANGED closeCnt

\* kqueue backend: Kqueue, then Kevent registering the user filter.
OpenPollerKqueue(r1, r2) ==
    LET kfd == NewFd(open)
    IN  IF ~r1
        THEN /\ openRes' = "err"
             /\ UNCHANGED << open, closeCnt, p >>
        ELSE IF ~r2
        THEN /\ openRes' = "err"
             /\ open' = open \cup {kfd}
             /\ UNCHANGED << closeCnt, p >>
        ELSE /\ openRes' = "ok"
             /\ open' = open \cup {kfd}
             /\ p' = [fd |-> kfd, wfd |-> 0]
             /\ UNCHANGED closeCnt

OpenPoller ==
    /\ openRes = "none"
    /\ \E r1, r2, r3 \in BOOLEAN :
          IF backend = "epoll"
          THEN OpenPollerEpoll(r1, r2, r3)
          ELSE r3 /\ OpenPollerKqueue(r1, r2)
    /\ UNCHANGED << backend, closeRes, wakeCtr, ioVars, jobs, nPushed, trigVars,
                    pollVars, feVars, histVars, obsVars >>

\* -------------------------------------------------------------- Close
\* epoll.go: close(wfd); on error return it; otherwise close(fd).  A close
\* that fails leaves the descriptor in the table.
CloseEpoll(r1, r2) ==
    IF ~r1
    THEN /\ closeRes' = "err"
         /\ closeCnt' = [closeCnt EXCEPT ![p.wfd] = @ + 1]
         /\ UNCHANGED open
    ELSE /\ closeRes' = IF r2 THEN "ok" ELSE "err"
         /\ closeCnt' = [closeCnt EXCEPT ![p.wfd] = @ + 1, ![p.fd] = @ + 1]
         /\ open' = IF r2 THEN CloseFd(CloseFd(open, p.wfd), p.fd)
                          ELSE CloseFd(open, p.wfd)

\* kqueue backend: close(fd).
CloseKqueue(r2) ==
    /\ closeRes' = IF r2 THEN "ok" ELSE "err"
    /\ closeCnt' = [closeCnt EXCEPT ![p.fd] = @ + 1]
    /\ open' = IF r2 THEN CloseFd(open, p.fd) ELSE open

\* The caller closes the poller once, when no Polling is running.
Close ==
    /\ openRes = "ok"
    /\ closeRes = "none"
    /\ pollPc \in {"idle", "returned"}
    /\ \E r1, r2 \in BOOLEAN :
          IF backend = "epoll"
          THEN CloseEpoll(r1, r2)
          ELSE r1 /\ CloseKqueue(r2)
    /\ UNCHANGED << backend, p, openRes, wakeCtr, ioVars, jobs, nPushed,
                    trigVars, pollVars, feVars, histVars, obsVars >>

Running == openRes = "ok" /\ closeRes = "none"

\* ------------------------------------------------------- AsyncJobQueue
\* (mutant) Push puts the job at the head of the queue.
PushFront(q, job) == << job >> \o q

\* Push appends under the queue's lock and returns the new length.
Push(q, job) == Append(q, job)

\* (mutant) ForEach runs through the live queue instead of a swapped batch.
CurrentBatchLive == feJobs \o jobs

\* ForEach swaps the queue out under the lock and runs the batch it took.
CurrentBatch == feJobs

\* ------------------------------------------------------------ Trigger
\* (mutants) Trigger wakes on every push / on every push up to length 2.
NeedsWakeAlways(len) == len >= 1
NeedsWakeUpTo2(len) == len <= 2

\* (mutant) Trigger wakes when Push returned 2.
NeedsWakeOnSecond(len) == len = 2

\* Trigger issues the wake syscall when Push returned 1.
NeedsWake(len) == len = 1

\* The thread that runs Polling (caller 0 of Trigger).
PollingThread == CHOOSE c \in Callers : c \notin Threads

\* (mutant) Trigger runs the job itself when the queue was empty.
RunsInlineWhenEmpty(len) == len = 1

\* Trigger hands the job to the queue and never calls it: whatever Push
\* returned, the job is not run on the caller's thread.
RunsInline(len) == FALSE

\* A thread enters Trigger(job).
TriggerCall(c) ==
    /\ Running
    /\ tpc[c] = "idle"
    /\ nPushed + Cardinality({d \in Callers : tpc[d] = "called"}) < MaxJobs
    /\ tpc' = [tpc EXCEPT ![c] = "called"]
    /\ burst' = (burst /\ nPushed = 0 /\ pollPc = "wait" /\ wakeCtr = 0)
    /\ UNCHANGED << backend, osVars, wakeCtr, ioVars, jobs, nPushed, tjob,
                    trigRet, pushLen, wakeBy, pollVars, feVars, histVars, obsVars >>

\* p.asyncJobQueue.Push(job), and the comparison of its result with 1.
TriggerPush(c) ==
    /\ tpc[c] = "called"
    /\ LET job == nPushed + 1
           q   == Push(jobs, job)
           len == Len(q)
       IN  /\ jobs' = q
           /\ nPushed' = job
           /\ pushLen' = [pushLen EXCEPT ![job] = len]
           /\ late' = late \cup {job}
           /\ ranOn' = IF RunsInline(len) THEN ranOn \cup {c} ELSE ranOn
           /\ IF NeedsWake(len)
              THEN /\ tpc' = [tpc EXCEPT ![c] = "wake"]
                   /\ tjob' = [tjob EXCEPT ![c] = job]
                   /\ UNCHANGED trigRet
              ELSE /\ tpc' = [tpc EXCEPT ![c] = "idle"]
                   /\ trigRet' = [trigRet EXCEPT ![job] = "ok"]
                   /\ UNCHANGED tjob
    /\ UNCHANGED << backend, osVars, wakeCtr, ioVars, wakeBy, burst, pollVars,
                    feVars, executed, feExec, swaps, failed, extraCb,
                    dropped, waitErr, lastCb, misWake >>

\* unix.Write(p.wfd, b): adds 1 to the eventfd counter; fails on a closed
\* descriptor, and may fail otherwise.
WakeEpoll(ok) ==
    /\ ok => p.wfd \in open
    /\ wakeCtr' = IF ok THEN wakeCtr + 1 ELSE wakeCtr

\* unix.Kevent(p.fd, wakeChanges): triggers the user filter.
WakeKqueue(ok) ==
    /\ ok => p.fd \in open
    /\ wakeCtr' = IF ok THEN 1 ELSE wakeCtr

\* The wake syscall of Trigger and Trigger's return of its error.
TriggerWake(c) ==
    /\ tpc[c] = "wake"
    /\ \E ok \in BOOLEAN :
          /\ IF backend = "epoll" THEN WakeEpoll(ok) ELSE WakeKqueue(ok)
          /\ trigRet' = [trigRet EXCEPT ![tjob[c]] = IF ok THEN "ok" ELSE "err"]
    /\ wakeBy' = [wakeBy EXCEPT ![tjob[c]] = @ + 1]
    /\ tpc' = [tpc EXCEPT ![c] = "idle"]
    /\ tjob' = [tjob EXCEPT ![c] = 0]
    /\ UNCHANGED << backend, osVars, ioVars, jobs, nPushed, pushLen,
                    burst, pollVars, feVars, histVars, obsVars >>

\* ------------------------------------------------------ registration
\* The kernel's answer to one registration syscall: whether it succeeded
\* and the interest the descriptor has afterwards.
\* epoll_ctl: ADD fails on a registered descriptor (EEXIST), MOD and DEL on
\* an unregistered one (ENOENT); ADD and MOD set the event mask.
EpollCtlAdd(fd, mask) ==
    IF interest[fd] = {} THEN [ok |-> TRUE, to |-> mask]
                         ELSE [ok |-> FALSE, to |-> interest[fd]]

EpollCtlMod(fd, mask) ==
    IF interest[fd] # {} THEN [ok |-> TRUE, to |-> mask]
                         ELSE [ok |-> FALSE, to |-> interest[fd]]

EpollCtlDel(fd) ==
    IF interest[fd] # {} THEN [ok |-> TRUE, to |-> {}]
                         ELSE [ok |-> FALSE, to |-> interest[fd]]

\* kevent: EV_ADD of filters adds them (adding one again succeeds);
\* EV_DELETE of a filter that is not registered fails (ENOENT).
KeventAdd(fd, fs) == [ok |-> TRUE, to |-> interest[fd] \cup fs]

KeventDelete(fd, f) ==
    IF f \in interest[fd] THEN [ok |-> TRUE, to |-> interest[fd] \ {f}]
                          ELSE [ok |-> FALSE, to |-> interest[fd]]

\* readEvents, writeEvents and readWriteEvents as sets of filters.
readEvents == {"r"}
writeEvents == {"w"}
readWriteEvents == readEvents \cup writeEvents

\* (mutant) Delete returns nil without removing the descriptor.
DeleteResNoop(fd) == [ok |-> TRUE, to |-> interest[fd]]

\* (mutant) ModRead keeps the write filter instead of the read filter.
ModReadResWrite(fd) ==
    IF backend = "epoll" THEN EpollCtlMod(fd, writeEvents)
                         ELSE KeventDelete(fd, "r")

\* What each operation's syscall does on the two backends.
AddReadWriteRes(fd) ==
    IF backend = "epoll" THEN EpollCtlAdd(fd, readWriteEvents)
                         ELSE KeventAdd(fd, {"r", "w"})

AddReadRes(fd) ==
    IF backend = "epoll" THEN EpollCtlAdd(fd, readEvents)
                         ELSE KeventAdd(fd, {"r"})

AddWriteRes(fd) ==
    IF backend = "epoll" THEN EpollCtlAdd(fd, writeEvents)
                         ELSE KeventAdd(fd, {"w"})

ModReadRes(fd) ==
    IF backend = "epoll" THEN EpollCtlMod(fd, readEvents)
                         ELSE KeventDelete(fd, "w")

ModReadWriteRes(fd) ==
    IF backend = "epoll" THEN EpollCtlMod(fd, readWriteEvents)
                         ELSE KeventAdd(fd, {"w"})

\* Delete: EPOLL_CTL_DEL on epoll; on kqueue it does nothing and returns nil.
DeleteRes(fd) ==
    IF backend = "epoll" THEN EpollCtlDel(fd)
                         ELSE [ok |-> TRUE, to |-> interest[fd]]

\* An Add operation returns res.
AddOp(fd, res) ==
    /\ Running
    /\ interest' = [interest EXCEPT ![fd] = res.to]
    /\ deleted' = IF res.ok THEN deleted \ {fd} ELSE deleted
    /\ lastMod' = NoMod
    /\ UNCHANGED << backend, osVars, wakeCtr, ready, writable, flags, jobs,
                    nPushed, trigVars, pollVars, feVars, histVars, obsVars >>

\* A Mod operation named op returns res.
ModOp(op, fd, res) ==
    /\ Running
    /\ interest' = [interest EXCEPT ![fd] = res.to]
    /\ lastMod' = [op |-> op, fd |-> fd, ok |-> res.ok,
                   before |-> interest[fd]]
    /\ UNCHANGED << backend, osVars, wakeCtr, deleted, ready, writable, flags,
                    jobs, nPushed, trigVars, pollVars, feVars, histVars,
                    obsVars >>

AddReadWrite(fd) == AddOp(fd, AddReadWriteRes(fd))

AddRead(fd) == AddOp(fd, AddReadRes(fd))

AddWrite(fd) == AddOp(fd, AddWriteRes(fd))

ModRead(fd) == ModOp("ModRead", fd, ModReadRes(fd))

ModReadWrite(fd) == ModOp("ModReadWrite", fd, ModReadWriteRes(fd))

Delete(fd) ==
    /\ Running
    /\ LET res == DeleteRes(fd)
       IN  /\ interest' = [interest EXCEPT ![fd] = res.to]
           /\ deleted' = IF res.ok THEN deleted \cup {fd} ELSE deleted
    /\ lastMod' = NoMod
    /\ UNCHANGED << backend, osVars, wakeCtr, ready, writable, flags, jobs,
                    nPushed, trigVars, pollVars, feVars, histVars, obsVars >>

\* ------------------------------------------------------- environment
\* The environment makes a registered descriptor readable (only the wait
\* call of a running Polling observes it).
IOReady(fd) ==
    /\ pollPc \notin {"idle", "returned"}
    /\ fd \in registered \ ready
    /\ ready' = ready \cup {fd}
    /\ UNCHANGED << backend, osVars, wakeCtr, regVars, writable, flags, jobs,
                    nPushed, trigVars, pollVars, feVars, histVars, obsVars >>

\* A descriptor registered for writing becomes writable.
IOWritable(fd) ==
    /\ pollPc \notin {"idle", "returned"}
    /\ "w" \in interest[fd]
    /\ fd \notin writable
    /\ writable' = writable \cup {fd}
    /\ UNCHANGED << backend, osVars, wakeCtr, regVars, ready, flags, jobs,
                    nPushed, trigVars, pollVars, feVars, histVars, obsVars >>

\* The peer hangs up or the socket fails: the descriptor's read filter is
\* ready and its record carries EV_EOF or EV_ERROR (on epoll the condition
\* is part of the event mask, which Polling passes on as it is).
IOHangup(fd, f) ==
    /\ backend = "kqueue"
    /\ pollPc \notin {"idle", "returned"}
    /\ fd \in registered \ ready
    /\ ready' = ready \cup {fd}
    /\ flags' = [flags EXCEPT ![fd] = f]
    /\ UNCHANGED << backend, osVars, wakeCtr, regVars, writable, jobs,
                    nPushed, trigVars, pollVars, feVars, histVars, obsVars >>

\* ------------------------------------------------------------ Polling
\* The record the wake primitive reports, and the records of readable
\* application descriptors.
WakeRecord ==
    IF backend = "epoll" THEN [fd |-> p.wfd, ev |-> "IN", flags |-> "none"]
                         ELSE [fd |-> 0, ev |-> "USER", flags |-> "none"]

\* The record of a readable descriptor.
IORecord(fd) ==
    IF backend = "epoll" THEN [fd |-> fd, ev |-> "IN", flags |-> "none"]
                         ELSE [fd |-> fd, ev |-> "READ", flags |-> flags[fd]]

\* The record of a writable descriptor.
IOWriteRecord(fd) ==
    IF backend = "epoll" THEN [fd |-> fd, ev |-> "OUT", flags |-> "none"]
                         ELSE [fd |-> fd, ev |-> "WRITE", flags |-> "none"]

\* The records the kernel holds for fd: one per ready filter that is
\* registered; epoll reports both conditions in one record.
IORecords(fd) ==
    LET r == fd \in ready /\ "r" \in interest[fd]
        w == fd \in writable /\ "w" \in interest[fd]
    IN  IF backend = "epoll" /\ r /\ w
        THEN {[fd |-> fd, ev |-> "INOUT", flags |-> "none"]}
        ELSE (IF r THEN {IORecord(fd)} ELSE {})
                 \cup (IF w THEN {IOWriteRecord(fd)} ELSE {})

ReadyRecords ==
    (IF wakeCtr > 0 THEN {WakeRecord} ELSE {})
        \cup UNION { IORecords(fd) : fd \in AppFds }

\* The conditions a record reports.
IsRead(rec) == rec.ev \in {"IN", "INOUT", "READ"}
IsWrite(rec) == rec.ev \in {"OUT", "INOUT", "WRITE"}

\* The batches of k distinct records the kernel may return, in any order.
Batches(S, k) ==
    { s \in [1..k -> S] : \A a, b \in 1..k : a # b => s[a] # s[b] }

Min(a, b) == IF a < b THEN a ELSE b

\* epoll: the record is the wake event when its descriptor is p.wfd.
IsWakeEpoll(rec) == rec.fd = p.wfd

\* kqueue: the record is the wake event when its identifier is 0.
IsWakeKqueue(rec) == rec.fd = 0

IsWake(rec) == IF backend = "epoll" THEN IsWakeEpoll(rec) ELSE IsWakeKqueue(rec)

\* (mutant) a wait error other than EINTR ends Polling.
AfterWaitErrFatal(e) == IF e = "EINTR" THEN "dispatch" ELSE "returned"

\* (mutant) the dispatch loop goes on after a callback failed.
AfterCallbackContinue(r) == "dispatch"

\* (mutant) Polling ignores ForEach's error.
AfterForEachIgnore(e) == "wait"

\* Where the loop goes after a failed wait call: EINTR falls through with
\* n = -1, any other error is logged and the loop continues.
AfterWaitErr(e) == IF e = "EINTR" THEN "dispatch" ELSE "wait"

\* Where the loop goes after a callback returned r.
AfterCallback(r) == IF r # Nil THEN "returned" ELSE "dispatch"

\* Where the loop goes after ForEach returned e.
AfterForEach(e) == IF e # Nil THEN "returned" ELSE "wait"

\* el.increase() doubles the capacity.
Increase(size) == 2 * size

\* (mutant) the list grows when the batch left at most one slot free.
GrowEarly(cnt, size) == IF cnt >= size - 1 THEN Increase(size) ELSE size

\* (mutant) the list also grows when the wait call failed.
GrowOnError(cnt, size) ==
    IF cnt = size \/ cnt < 0 THEN Increase(size) ELSE size

\* The event list grows when the batch filled it.
Grow(cnt, size) == IF cnt = size THEN Increase(size) ELSE size

\* The filter the kqueue backend passes for a socket that is at end of
\* file or in error.
EVFilterSock == "SOCK"

\* (mutant) evFilter keeps EVFilterSock once a record of the batch set it.
NormalizeCarry(rec) ==
    IF rec.flags \in {"EOF", "ERROR"} \/ lastCb.ev = EVFilterSock
    THEN EVFilterSock ELSE rec.ev

\* kqueue: evFilter is the record's filter, replaced by EVFilterSock when
\* the record carries EV_EOF or EV_ERROR.
Normalize(rec) ==
    IF rec.flags \in {"EOF", "ERROR"} THEN EVFilterSock ELSE rec.ev

\* The second argument of the callback: the event mask on epoll, the
\* normalized filter on kqueue.
CallbackArg(rec) == IF backend = "epoll" THEN rec.ev ELSE Normalize(rec)

\* Polling(callback) is called: el := newEventList(InitEvents).
PollingStart ==
    /\ Running
    /\ pollPc = "idle"
    /\ pollPc' = "wait"
    /\ el' = InitEvents
    /\ wakenUp' = FALSE
    /\ UNCHANGED << backend, osVars, wakeCtr, ioVars, jobs, nPushed, trigVars,
                    events, n, i, err, feVars, histVars, obsVars >>

\* The wait call returns the records that are ready, as many as fit.  The
\* user filter is EV_CLEAR: reporting it resets it.
PollWait ==
    /\ pollPc = "wait"
    /\ ReadyRecords # {}
    /\ \E b \in Batches(ReadyRecords, Min(Cardinality(ReadyRecords), el)) :
          /\ events' = b
          /\ n' = Len(b)
          /\ wakeCtr' = IF backend = "kqueue" /\ WakeRecord \in Range(b)
                        THEN 0 ELSE wakeCtr
    /\ i' = 1
    /\ pollPc' = "dispatch"
    /\ waitErr' = "none"
    /\ UNCHANGED << backend, osVars, ioVars, jobs, nPushed, trigVars, el,
                    wakenUp, err, feVars, histVars, lastCb, ranOn, misWake >>

\* ForEach takes the queue's lock and swaps the queue out.
ForEachSwap ==
    /\ feJobs' = jobs
    /\ jobs' = << >>
    /\ feIdx' = 1
    /\ late' = {}
    /\ feExec' = {}
    /\ swaps' = IF jobs # << >> THEN swaps + 1 ELSE swaps

\* The rest of an iteration once the dispatch loop is over, cnt being the
\* wait call's result: with wakenUp set, reset it and call ForEach;
\* otherwise grow the event list if the batch filled it and wait again.
\* (events and i are dead from here on.)
EndOfBatch(cnt) ==
    /\ events' = << >>
    /\ i' = 1
    /\ lastCb' = NoCb
    /\ IF wakenUp
       THEN /\ wakenUp' = FALSE
            /\ pollPc' = "foreach"
            /\ n' = cnt
            /\ ForEachSwap
            /\ UNCHANGED el
       ELSE /\ pollPc' = "wait"
            /\ el' = Grow(cnt, el)
            /\ n' = 0
            /\ UNCHANGED << wakenUp, jobs, feVars, late, feExec, swaps >>

\* The wait call fails.  EINTR falls through the iteration with n = -1; any
\* other error is logged and the loop continues.
PollWaitErr(e) ==
    /\ pollPc = "wait"
    /\ waitErr' = e
    /\ CASE AfterWaitErr(e) = "wait" ->
              UNCHANGED << pollPc, el, events, n, i, wakenUp, err, jobs,
                           feVars, late, feExec, swaps, lastCb >>
         [] AfterWaitErr(e) = "dispatch" ->
              /\ EndOfBatch(-1)
              /\ UNCHANGED err
         [] OTHER ->
              /\ pollPc' = AfterWaitErr(e)
              /\ err' = e
              /\ UNCHANGED << el, events, n, i, wakenUp, jobs, feVars, late,
                              feExec, swaps, lastCb >>
    /\ UNCHANGED << backend, osVars, wakeCtr, ioVars, nPushed, trigVars,
                    executed, failed, extraCb, dropped, ranOn, misWake >>

\* One pass of the dispatch loop over record i: the wake record sets
\* wakenUp (and on epoll the eventfd is read, which resets its counter);
\* any other record goes to the callback, which returns r and has consumed
\* the descriptor's readiness.
PollDispatch ==
    /\ pollPc = "dispatch"
    /\ i <= n
    /\ LET rec == events[i]
       IN  IF IsWake(rec)
           THEN /\ wakenUp' = TRUE
                /\ wakeCtr' = IF backend = "epoll" THEN 0 ELSE wakeCtr
                /\ misWake' = (misWake \/ rec # WakeRecord)
                /\ i' = i + 1
                /\ UNCHANGED << pollPc, err, ready, writable, flags, failed,
                                extraCb, events, n, lastCb, ranOn >>
           ELSE \E r \in {Nil, CbErr(rec.fd)} :
                /\ lastCb' = [fd |-> rec.fd, ev |-> CallbackArg(rec)]
                /\ ranOn' = ranOn \cup {PollingThread}
                /\ extraCb' = (extraCb \/ failed.src # "none")
                /\ ready' = IF IsRead(rec) THEN ready \ {rec.fd} ELSE ready
                /\ flags' = IF IsRead(rec)
                            THEN [flags EXCEPT ![rec.fd] = "none"] ELSE flags
                /\ writable' = IF IsWrite(rec) THEN writable \ {rec.fd}
                                               ELSE writable
                /\ pollPc' = AfterCallback(r)
                /\ err' = r
                /\ failed' = IF r # Nil /\ failed.src = "none"
                             THEN [src |-> "cb", e |-> r,
                                   execs |-> Len(executed),
                                   rest |-> n - i, woken |-> wakenUp]
                             ELSE failed
                /\ IF AfterCallback(r) = "returned"
                   THEN events' = << >> /\ n' = 0 /\ i' = 1
                   ELSE i' = i + 1 /\ UNCHANGED << events, n >>
                /\ UNCHANGED << wakenUp, wakeCtr, misWake >>
    /\ UNCHANGED << backend, osVars, regVars, jobs, nPushed, trigVars, el,
                    feVars, executed, late, feExec, swaps, dropped, waitErr >>

\* The dispatch loop is over.
PollAfterBatch ==
    /\ pollPc = "dispatch"
    /\ i > n
    /\ EndOfBatch(n)
    /\ UNCHANGED << backend, osVars, wakeCtr, ioVars, nPushed, trigVars, err,
                    executed, failed, extraCb, dropped, waitErr, ranOn,
                    misWake >>

\* ForEach's result e is taken by Polling: an error is returned; otherwise
\* the event list grows if the batch filled it and the loop waits again.
\* (The batch and n are dead from here on.)
ForEachResult(e) ==
    /\ pollPc' = AfterForEach(e)
    /\ err' = e
    /\ el' = IF AfterForEach(e) = "wait" THEN Grow(n, el) ELSE el
    /\ n' = 0
    /\ feJobs' = << >>
    /\ feIdx' = 1
    /\ feExec' = {}

\* ForEach runs the next job of the batch.  The job returns nil or an
\* error, or calls Trigger for another job before it returns nil.
ForEachJob ==
    /\ pollPc = "foreach"
    /\ feIdx <= Len(CurrentBatch)
    /\ LET job == CurrentBatch[feIdx]
       IN  /\ executed' = Append(executed, job)
           /\ ranOn' = ranOn \cup {PollingThread}
           /\ \E r \in {Nil, "trigger", JobErr(job)} :
                 CASE r = Nil ->
                        /\ feIdx' = feIdx + 1
                        /\ feExec' = feExec \cup {job}
                        /\ UNCHANGED << pollPc, err, el, n, feJobs, tpc, burst,
                                        failed, dropped >>
                   [] r = "trigger" ->
                        /\ nPushed + Cardinality({d \in Callers :
                                                  tpc[d] = "called"}) < MaxJobs
                        /\ tpc' = [tpc EXCEPT ![0] = "called"]
                        /\ burst' = FALSE
                        /\ pollPc' = "injob"
                        /\ feExec' = feExec \cup {job}
                        /\ UNCHANGED << feIdx, err, el, n, feJobs, failed,
                                        dropped >>
                   [] OTHER ->
                        /\ ForEachResult(r)
                        /\ failed' = IF failed.src = "none"
                                     THEN [src |-> "job", e |-> r,
                                           execs |-> Len(executed) + 1,
                                           rest |-> 0, woken |-> FALSE]
                                     ELSE failed
                        /\ dropped' = dropped \cup
                              { CurrentBatch[k] :
                                  k \in (feIdx + 1)..Len(CurrentBatch) }
                        /\ UNCHANGED << tpc, burst >>
    /\ UNCHANGED << backend, osVars, wakeCtr, ioVars, jobs, nPushed, tjob,
                    trigRet, pushLen, wakeBy, events, i, wakenUp, late, swaps,
                    extraCb, waitErr, lastCb, misWake >>

\* The job that called Trigger returns nil once its Trigger has returned.
JobResume ==
    /\ pollPc = "injob"
    /\ tpc[0] = "idle"
    /\ feIdx' = feIdx + 1
    /\ pollPc' = "foreach"
    /\ UNCHANGED << backend, osVars, wakeCtr, ioVars, jobs, nPushed, trigVars,
                    el, events, n, i, wakenUp, err, feJobs, histVars, obsVars >>

\* ForEach has run the whole batch and returns nil.
ForEachDone ==
    /\ pollPc = "foreach"
    /\ feIdx > Len(CurrentBatch)
    /\ ForEachResult(Nil)
    /\ UNCHANGED << backend, osVars, wakeCtr, ioVars, jobs, nPushed, trigVars,
                    events, i, wakenUp, executed, late, swaps, failed, extraCb,
                    dropped, obsVars >>

\* ------------------------------------------------------ specification
Next ==
    \/ OpenPoller
    \/ Close
    \/ \E c \in Threads : TriggerCall(c)
    \/ \E c \in Callers : TriggerPush(c)
    \/ \E c \in Callers : TriggerWake(c)
    \/ \E fd \in AppFds : AddRead(fd)
    \/ \E fd \in AppFds : IOReady(fd)
    \/ PollingStart
    \/ PollWait
    \/ \E e \in {"EINTR", "EOTHER"} : PollWaitErr(e)
    \/ PollDispatch
    \/ PollAfterBatch
    \/ ForEachJob
    \/ JobResume
    \/ ForEachDone

Spec == Init /\ [][Next]_vars

\* The registration operations and the dispatch of I/O events, with no
\* thread calling Trigger: every Add, Mod and Delete operation, read and
\* write readiness, hang-ups.
NextIO ==
    \/ OpenPoller
    \/ \E fd \in AppFds : AddReadWrite(fd)
    \/ \E fd \in AppFds : AddRead(fd)
    \/ \E fd \in AppFds : Delete(fd)
    \/ \E fd \in AppFds : IOReady(fd)
    \/ \E fd \in AppFds : IOWritable(fd)
    \/ \E fd \in AppFds, f \in {"EOF", "ERROR"} : IOHangup(fd, f)
    \/ PollingStart
    \/ PollWait
    \/ \E e \in {"EINTR", "EOTHER"} : PollWaitErr(e)
    \/ PollDispatch
    \/ PollAfterBatch
    \/ ForEachDone

SpecIO == Init /\ [][NextIO]_vars

\* The registration operations alone, in every order, on an open poller.
NextReg ==
    \/ OpenPoller
    \/ \E fd \in AppFds : AddReadWrite(fd)
    \/ \E fd \in AppFds : AddRead(fd)
    \/ \E fd \in AppFds : AddWrite(fd)
    \/ \E fd \in AppFds : ModRead(fd)
    \/ \E fd \in AppFds : ModReadWrite(fd)
    \/ \E fd \in AppFds : Delete(fd)

SpecReg == Init /\ [][NextReg]_vars

\* The scheduler runs every thread that can take a step: the poller thread
\* (the wait call returns when something is ready) and each thread inside
\* Trigger.
PollerStep ==
    \/ PollWait
    \/ PollDispatch
    \/ PollAfterBatch
    \/ ForEachJob
    \/ JobResume
    \/ ForEachDone

FairSpec ==
    /\ Spec
    /\ WF_vars(PollerStep)
    /\ \A c \in Callers : WF_vars(TriggerPush(c) \/ TriggerWake(c))

\* ------------------------------------------------------------ properties
RECURSIVE SumUpTo(_, _)
SumUpTo(f, k) == IF k = 0 THEN 0 ELSE f[k] + SumUpTo(f, k - 1)

\* Wake syscalls issued so far by all Trigger calls.
WakeCalls == SumUpTo(wakeBy, MaxJobs)

\* Every Trigger call made so far has returned.
AllReturned == \A c \in Callers : tpc[c] = "idle"

\* No job twice, none before a job pushed earlier.
StrictlyIncreasing(s) == \A a, b \in 1..Len(s) : a < b => s[a] < s[b]

\* C1 as stated: N >= 1 Trigger calls, all issued before any job was pushed
\* and while the poller was blocked in the wait call, issue exactly one wake
\* syscall in total, and the jobs run at most once each, in push order.
C1_ExactlyOneWake ==
    (burst /\ AllReturned /\ nPushed >= 1)
        => (WakeCalls = 1 /\ StrictlyIncreasing(executed))

\* C1 amended: the calls issue one wake syscall per Push that found the
\* queue empty: at least one, and more than one only if ForEach swapped a
\* non-empty queue out in between; no job runs twice or out of push order.
C1_WakeDedup ==
    (AllReturned /\ nPushed >= 1)
        => /\ WakeCalls >= 1
           /\ WakeCalls <= 1 + swaps
           /\ StrictlyIncreasing(executed)

\* Two concurrent calls on an empty queue with the poller blocked, one wake
\* syscall, both jobs run.
C1_Witness ==
    /\ burst /\ AllReturned /\ nPushed = 2
    /\ WakeCalls = 1
    /\ executed = << 1, 2 >>

\* C2: while Polling runs, every job whose Trigger returned nil is
\* eventually run, unless a callback or a job fails.
C2_TriggeredJobRuns ==
    \A j \in 1..MaxJobs :
        (trigRet[j] = "ok" /\ pollPc \notin {"idle", "returned"})
            ~> (j \in Range(executed) \/ failed.src # "none")

\* C3: the jobs run so far are a prefix of the jobs in push order (job k is
\* the k-th job pushed).
C3_FIFO ==
    /\ Len(executed) <= nPushed
    /\ \A k \in 1..Len(executed) : executed[k] = k

\* Jobs of both threads were run over more than one ForEach call.
C3_Witness ==
    /\ Len(executed) >= 3
    /\ swaps >= 2

\* C4: once a callback has returned an error, Polling has returned exactly
\* that error, no callback was invoked after it and no job was run after it.
C4_CallbackError ==
    failed.src = "cb"
        => /\ pollPc = "returned"
           /\ err = failed.e
           /\ ~extraCb
           /\ Len(executed) = failed.execs

\* A callback failed with records of its batch left, the wake record
\* already seen and jobs queued.
C4_Witness ==
    /\ failed.src = "cb"
    /\ failed.rest > 0
    /\ failed.woken
    /\ jobs # << >>

\* C5: once a job has failed, Polling returns that job's error, no job runs
\* after it, and the jobs that followed it in the batch are neither run nor
\* left in the queue.
C5_JobError ==
    failed.src = "job"
        => /\ pollPc = "returned"
           /\ err = failed.e
           /\ err = JobErr(executed[Len(executed)])
           /\ Len(executed) = failed.execs
           /\ dropped \cap Range(executed) = {}
           /\ dropped \cap Range(jobs) = {}

\* A job failed with another job behind it in the batch.
C5_Witness ==
    /\ failed.src = "job"
    /\ dropped # {}

\* C6: Polling has returned only if a callback or a job failed, and it
\* returned that failure.
C6_OnlyFailureReturns ==
    pollPc = "returned"
        => /\ failed.src \in {"cb", "job"}
           /\ err = failed.e
           /\ err # Nil

\* Polling returned after triggers and registrations had taken place.
C6_Witness ==
    /\ pollPc = "returned"
    /\ registered # {}
    /\ nPushed >= 2
    /\ swaps >= 1

\* C7: a Trigger that has returned issued one wake syscall if its Push
\* returned 1 and none otherwise; a Trigger still running has issued none.
C7_WakeIffLenOne ==
    \A j \in 1..MaxJobs :
        /\ trigRet[j] # "none"
              => wakeBy[j] = (IF pushLen[j] = 1 THEN 1 ELSE 0)
        /\ trigRet[j] = "none" => wakeBy[j] = 0

\* One Trigger woke the poller, a later one pushed onto a non-empty queue
\* and did not, and a drain made a third one wake it again.
C7_Witness ==
    /\ \E j \in 1..MaxJobs : trigRet[j] # "none" /\ pushLen[j] = 2
    /\ WakeCalls >= 2
    /\ AllReturned

C9_NoLeakOnOpenError ==
    openRes = "err" => open = AppFds

\* C10: when Close has returned, with or without an error, the multiplexing
\* handle has been closed once, the wake handle (epoll) has been closed, and
\* no application descriptor has been closed.
C10_CloseReleasesBoth ==
    closeRes # "none"
        => /\ closeCnt[p.fd] = 1
           /\ backend = "epoll" => closeCnt[p.wfd] = 1
           /\ \A f \in AppFds : closeCnt[f] = 0 /\ f \in open

\* The step is a callback invocation: the dispatch loop passes record i,
\* which it does not take for the wake event, to the callback.
CallbackStep ==
    /\ pollPc = "dispatch"
    /\ i <= n
    /\ ~IsWake(events[i])
    /\ (i' # i \/ pollPc' # pollPc)

\* The step is a wait call that returns records.
WaitReturnStep == pollPc = "wait" /\ pollPc' = "dispatch"

\* The step is a wait call that fails with an error it had not just failed
\* with.
WaitErrStep == pollPc = "wait" /\ waitErr' # "none" /\ waitErr' # waitErr

\* C11 as stated: on epoll, the callback is never invoked for a descriptor
\* whose Delete has returned nil, whoever called Delete and whenever.
C11_NoCallbackAfterDelete ==
    [][(CallbackStep /\ backend = "epoll") => events[i].fd \notin deleted]_vars

\* C11 amended: on epoll, a wait call that returns after Delete(fd) returned
\* nil reports no record of fd, although fd is still readable; only a record
\* of a batch returned before Delete can still reach the callback.
C11_NoReportAfterDelete ==
    [][(WaitReturnStep /\ backend = "epoll")
          => \A k \in 1..n' : events'[k].fd \notin deleted]_vars

\* A deleted descriptor is readable and the poller is blocked in the wait
\* call, which has nothing to report.
C11_Witness ==
    /\ backend = "epoll"
    /\ pollPc = "wait"
    /\ deleted \cap ready # {}
    /\ ReadyRecords = {}

\* C12: every callback and every job has run on the thread that runs
\* Polling, none on a thread that called Trigger.
C12_SingleThread ==
    /\ ranOn \subseteq {PollingThread}
    /\ ranOn \cap Threads = {}

\* A job and a callback have run while another thread is inside Trigger.
C12_Witness ==
    /\ ranOn = {PollingThread}
    /\ executed # << >>
    /\ lastCb # NoCb
    /\ \E c \in Threads : tpc[c] = "wake"

\* The interest a Mod operation names.
Named(op) == IF op = "ModRead" THEN readEvents ELSE readWriteEvents

\* C13 as stated: after a Mod operation returned nil on a registered
\* descriptor, the descriptor's interest is the named one, on both backends,
\* whatever Add operation registered it.
C13_ModSetsInterest ==
    (lastMod.ok /\ lastMod.before # {})
        => interest[lastMod.fd] = Named(lastMod.op)

\* C13 amended: after a Mod operation returned nil, the descriptor's interest
\* is the named one on epoll whatever it was, and on kqueue when the read
\* filter was registered (the kqueue operations change the write filter
\* only).
C13_ModSetsInterestFromRead ==
    (lastMod.ok /\ (backend = "epoll" \/ "r" \in lastMod.before))
        => interest[lastMod.fd] = Named(lastMod.op)

\* kqueue: ModRead demoted a descriptor registered for both directions.
C13_Witness ==
    /\ backend = "kqueue"
    /\ lastMod.op = "ModRead"
    /\ lastMod.ok
    /\ lastMod.before = readWriteEvents
    /\ interest[lastMod.fd] = readEvents

\* The capacities the event list can have.
IsCapacity(c) == \E k \in 0..4 : c = InitEvents * (2 ^ k)

\* C14: an iteration that ends doubles the capacity if its wait call
\* returned exactly capacity records and leaves it otherwise (fewer records,
\* a wait error); the capacity never shrinks and is InitEvents times a power
\* of two.
C14_GrowthLaw ==
    /\ [][/\ (pollPc \in {"dispatch", "foreach"} /\ pollPc' = "wait")
               => el' = IF n = el THEN 2 * el ELSE el
          /\ (pollPc = "wait" /\ pollPc' = "wait") => el' = el
          /\ (pollPc # "idle" /\ el' # el) => el' = 2 * el]_vars
    /\ [](pollPc # "idle" => IsCapacity(el))

\* The capacity has doubled twice.
C14_Witness ==
    /\ el = 4 * InitEvents
    /\ pollPc = "wait"

\* C15: an iteration whose wait call fails invokes no callback, runs no job,
\* does not drain the wake handle, leaves the capacity and wakenUp as they
\* were, and the loop waits again.
C15_WaitErrNoEffect ==
    [][WaitErrStep
          => /\ pollPc' = "wait"
             /\ UNCHANGED << el, wakenUp, wakeCtr, executed, jobs, feJobs,
                             lastCb, ranOn, ready, writable, err, extraCb >>]_vars

\* The wait call failed with EINTR while a job was queued and its wake
\* pending; the loop is back at the wait call.
C15_Witness ==
    /\ waitErr = "EINTR"
    /\ pollPc = "wait"
    /\ jobs # << >>
    /\ wakeCtr > 0

\* C16: ForEach is entered only from the end of the dispatch loop of a batch
\* that holds the wake event, with every record dispatched; a batch without
\* the wake event ends without ForEach; wakenUp is false whenever the loop
\* enters the wait call.
C16_ForEachOncePerWake ==
    [][/\ (pollPc \notin {"foreach", "injob"} /\ pollPc' = "foreach")
            => (pollPc = "dispatch" /\ i > n /\ WakeRecord \in Range(events))
       /\ (pollPc = "dispatch" /\ pollPc' = "wait")
            => WakeRecord \notin Range(events)
       /\ pollPc' = "wait" => ~wakenUp']_vars

\* C17: on kqueue the callback receives EVFilterSock when the record carries
\* the end-of-file or the error flag, and the record's own filter otherwise,
\* whatever the records before it in the batch were.
C17_Normalization ==
    [][(CallbackStep /\ backend = "kqueue")
          => lastCb' = [fd |-> events[i].fd,
                        ev |-> IF events[i].flags \in {"EOF", "ERROR"}
                               THEN EVFilterSock ELSE events[i].ev]]_vars

\* A flagged read record went to the callback as EVFilterSock, and the write
\* record after it in the batch with its own filter.
C17_Witness ==
    /\ backend = "kqueue"
    /\ pollPc = "dispatch"
    /\ i = 3
    /\ events[1].flags # "none"
    /\ events[2].ev = "WRITE"
    /\ lastCb = [fd |-> events[2].fd, ev |-> "WRITE"]

\* Every wake syscall issued so far succeeded.
NoWakeFailed == \A j \in 1..MaxJobs : trigRet[j] # "err"

\* The batch Polling holds has the wake event among its records not yet
\* dispatched.
WakeInBatch ==
    pollPc = "dispatch" /\ \E k \in i..n : events[k] = WakeRecord

\* C18: provided no wake syscall failed, while the queue is non-empty and
\* Polling has not returned, a wake is pending, or a Trigger whose Push
\* returned 1 has yet to issue its wake, or the poller has the wake event of
\* its current batch and has not yet run ForEach.
C18_NoStrandedJob ==
    (NoWakeFailed /\ jobs # << >> /\ pollPc # "returned")
        => \/ wakeCtr > 0
           \/ \E c \in Callers : tpc[c] = "wake"
           \/ wakenUp
           \/ WakeInBatch

\* Two jobs are queued, every Trigger has returned, and the only thing that
\* stands for them is the wake event the poller has seen in its batch.
C18_Witness ==
    /\ NoWakeFailed
    /\ AllReturned
    /\ Len(jobs) >= 2
    /\ wakenUp
    /\ wakeCtr = 0

\* C19: a job whose Trigger returned the wake syscall's error is not in the
\* queue, is in no batch, and has not been run.
C19_TriggerAtomicOnError ==
    \A j \in 1..MaxJobs :
        trigRet[j] = "err"
            => j \notin (Range(jobs) \cup Range(feJobs) \cup Range(executed))

\* C20: the only record Polling takes for the wake event is the wake event;
\* no record of an application descriptor is consumed as a wake.
C20_WakeNeverConfused == ~misWake
====
